---- MODULE Spec2Model ----
(***************************************************************************)
(* Model of Vega/src/Debug/Instrumentor.h: the Instrumentor trace sink     *)
(* (BeginSession / EndSession / WriteProfile under one std::mutex) and the *)
(* InstrumentationTimer (constructor, Stop, destructor).                   *)
(*                                                                         *)
(* Every statement that touches m_CurrentSession or m_OutputStream is one  *)
(* step of the calling thread, so that the interleavings the mutex allows  *)
(* and forbids are visible.  Statements that touch only locals of the      *)
(* calling thread are merged into the step that enters the call.           *)
(***************************************************************************)
EXTENDS Integers, Sequences, FiniteSets, TLC

\* ------------------------------------------------------------------ bounds

NThreads == 2
MaxCalls == 3
MaxStartNs == 1100
MaxElapsedUs == 2
MaxNameLen == 2

Threads == 1..NThreads

\* ------------------------------------------------------------ input domains

SessionNames == {"A", "B"}
Paths == {"p.json", "q.json"}
DQ == "\""
SQ == "'"
SpanNames == {<<DQ, "f">>}
\* steady_clock readings, in nanoseconds since the clock's epoch
Ticks == {1500}

\* the characters of a span name: the two quotes, a letter, a backslash
Alphabet == {DQ, SQ, "a", "\\"}
\* the span names of at most MaxNameLen characters
Names == UNION {[1..n -> Alphabet] : n \in 0..MaxNameLen}

\* ---------------------------------------------------------------- constants

nullptr == 0
NoThread == 0
NoPath == "<closed>"
Absent == [exists |-> FALSE, data |-> <<>>]

Header == [k |-> "{\"otherData\": {},\"traceEvents\":[{}"]
Footer == [k |-> "]}"]

VARIABLES
    m_Mutex,          \* the thread that owns m_Mutex, or NoThread
    m_CurrentSession, \* address of the current InstrumentationSession, or nullptr
    heap,             \* live InstrumentationSession objects: address -> [Name]
    m_OutputStream,   \* [path, fail, buf]: the ofstream's file, failbit, unflushed output
    files,            \* the file system: path -> [exists, data]
    log,              \* what LOGW / LOGE have emitted, in order
    pc,               \* each thread's position
    args,             \* each thread's arguments of the call it is in
    json,             \* WriteProfile's local `json`
    ret,              \* where the thread's InternalEndSession / WriteProfile returns to
    obs,              \* what the thread's call found: the length of the log when it
                      \* took the mutex, and the session its test of m_CurrentSession saw
    timer,            \* each thread's InstrumentationTimer
    calls             \* number of calls made so far

vars == <<m_Mutex, m_CurrentSession, heap, m_OutputStream, files, log, pc,
          args, json, ret, obs, timer, calls>>

sink == <<m_CurrentSession, heap, m_OutputStream, files, log>>
locals == <<args, json, ret, obs>>

NoArgs == [op |-> "none"]
NoJson == [k |-> "none"]
NoObs == [found |-> FALSE, name |-> "", path |-> NoPath, logAt |-> 0]
NoTimer == [life |-> "none", m_Name |-> <<>>, m_StartTimepoint |-> 0,
            m_Stopped |-> FALSE, forwarded |-> 0, stops |-> 0,
            born |-> NoPath]

\* ------------------------------------------------------------------ helpers

\* mutant: only the first double quote is replaced
Replace_First(name) ==
    [i \in 1..Len(name) |->
        IF name[i] = DQ /\ \A j \in 1..(i - 1) : name[j] # DQ THEN SQ ELSE name[i]]

\* std::replace(name.begin(), name.end(), '"', '\'')
Replace(name) == [i \in 1..Len(name) |-> IF name[i] = DQ THEN SQ ELSE name[i]]

Digit(n, p) == (n \div p) % 10

\* mutant: std::setprecision(2)
FixedDouble_Prec2(ns) ==
    [int |-> ns \div 1000, frac |-> <<Digit(ns, 100), Digit(ns, 10)>>]

\* operator<< of a double under std::fixed, std::setprecision(3); the value
\* is ns / 1000 microseconds
FixedDouble(ns) ==
    [int |-> ns \div 1000, frac |-> <<Digit(ns, 100), Digit(ns, 10), Digit(ns, 1)>>]

\* operator<< of an integer (std::chrono::microseconds::rep): the floating
\* point flags do not apply
FixedInt(n) == [int |-> n, frac |-> <<>>]

\* time_point_cast<microseconds>(tp).time_since_epoch().count()
CastMicros(ns) == ns \div 1000

\* the stringstream WriteProfile builds from its argument
Json(result) ==
    [k    |-> ",{",
     cat  |-> "function",
     dur  |-> FixedInt(result.ElapsedTime),
     name |-> Replace(result.Name),
     ph   |-> "X",
     pid  |-> 0,
     tid  |-> result.ThreadID,
     ts   |-> FixedDouble(result.Start)]

\* m_OutputStream << chunk
StreamPut(s, chunk) ==
    IF s.path = NoPath \/ s.fail
    THEN [s EXCEPT !.fail = TRUE]
    ELSE [s EXCEPT !.buf = Append(s.buf, chunk)]

\* the file system after the stream's buffer has been written out
Synced(s, fs) ==
    IF s.path = NoPath THEN fs
    ELSE [fs EXCEPT ![s.path].data = @ \o s.buf]

Init ==
    /\ m_Mutex = NoThread
    /\ m_CurrentSession = nullptr
    /\ heap = [a \in {} |-> [Name |-> ""]]
    /\ m_OutputStream = [path |-> NoPath, fail |-> FALSE, buf |-> <<>>]
    /\ files = [p \in Paths |-> Absent]
    /\ log = <<>>
    /\ pc = [t \in Threads |-> "idle"]
    /\ args = [t \in Threads |-> NoArgs]
    /\ json = [t \in Threads |-> NoJson]
    /\ ret = [t \in Threads |-> "idle"]
    /\ obs = [t \in Threads |-> NoObs]
    /\ timer = [t \in Threads |-> NoTimer]
    /\ calls = 0

\* ------------------------------------------------- std::lock_guard on m_Mutex

\* mutant: the function takes no lock
Acquire_NoLock(t) ==
    /\ m_Mutex' = t
    /\ obs' = [obs EXCEPT ![t] = [NoObs EXCEPT !.logAt = Len(log)]]

\* std::lock_guard lock(m_Mutex): blocks until the mutex is free
Acquire(t) ==
    /\ m_Mutex = NoThread
    /\ m_Mutex' = t
    /\ obs' = [obs EXCEPT ![t] = [NoObs EXCEPT !.logAt = Len(log)]]

\* what a test of m_CurrentSession sees
Seen(t) ==
    IF m_CurrentSession # nullptr
    THEN [obs[t] EXCEPT !.found = TRUE, !.name = heap[m_CurrentSession].Name,
                        !.path = m_OutputStream.path]
    ELSE [obs[t] EXCEPT !.found = FALSE, !.name = "", !.path = NoPath]

\* the lock_guard's destructor at the end of the function
Release(t) ==
    /\ m_Mutex' = NoThread
    /\ args' = [args EXCEPT ![t] = NoArgs]
    /\ json' = [json EXCEPT ![t] = NoJson]
    /\ obs' = [obs EXCEPT ![t] = NoObs]
    /\ ret' = [ret EXCEPT ![t] = "idle"]

\* ------------------------------------------------------------- BeginSession

BeginSession(t) ==
    /\ pc[t] = "idle"
    /\ \E name \in SessionNames, filepath \in Paths :
           args' = [args EXCEPT ![t] =
                       [op |-> "BeginSession", name |-> name, filepath |-> filepath]]
    /\ calls' = calls + 1
    /\ pc' = [pc EXCEPT ![t] = "bs_lock"]
    /\ UNCHANGED <<m_Mutex, sink, json, ret, obs, timer>>

BsLock(t) ==
    /\ pc[t] = "bs_lock"
    /\ Acquire(t)
    /\ pc' = [pc EXCEPT ![t] = "bs_check"]
    /\ UNCHANGED <<sink, args, json, ret, timer, calls>>

\* if (m_CurrentSession)
BsCheck(t) ==
    /\ pc[t] = "bs_check"
    /\ pc' = [pc EXCEPT ![t] =
                 IF m_CurrentSession # nullptr THEN "bs_warn" ELSE "bs_open"]
    /\ obs' = [obs EXCEPT ![t] = Seen(t)]
    /\ UNCHANGED <<m_Mutex, sink, args, json, ret, timer, calls>>

\* mutant: the warning names the session being begun instead of the open one
BsWarn_NewName(t) ==
    /\ pc[t] = "bs_warn"
    /\ log' = Append(log, [level |-> "W", name |-> args[t].name,
                           what |-> args[t].name])
    /\ pc' = [pc EXCEPT ![t] = "ies_check"]
    /\ ret' = [ret EXCEPT ![t] = "bs_open"]
    /\ UNCHANGED <<m_Mutex, m_CurrentSession, heap, m_OutputStream, files,
                   args, json, obs, timer, calls>>

\* mutant: BeginSession calls the public EndSession(), which takes the mutex
BsWarn_Relock(t) ==
    /\ pc[t] = "bs_warn"
    /\ log' = Append(log, [level |-> "W", name |-> args[t].name,
                           what |-> heap[m_CurrentSession].Name])
    /\ pc' = [pc EXCEPT ![t] = "es_lock"]
    /\ UNCHANGED <<m_Mutex, m_CurrentSession, heap, m_OutputStream, files,
                   args, json, ret, obs, timer, calls>>

\* LOGW(...); InternalEndSession();
BsWarn(t) ==
    /\ pc[t] = "bs_warn"
    /\ log' = Append(log, [level |-> "W", name |-> args[t].name,
                           what |-> heap[m_CurrentSession].Name])
    /\ pc' = [pc EXCEPT ![t] = "ies_check"]
    /\ ret' = [ret EXCEPT ![t] = "bs_open"]
    /\ UNCHANGED <<m_Mutex, m_CurrentSession, heap, m_OutputStream, files,
                   args, json, obs, timer, calls>>

\* mutant: a successful open leaves the stream's failbit as it was
BsOpen_StickyFail(t) ==
    /\ pc[t] = "bs_open"
    /\ \E ok \in BOOLEAN :
          IF ok /\ m_OutputStream.path = NoPath
          THEN /\ m_OutputStream' =
                     [path |-> args[t].filepath, fail |-> m_OutputStream.fail,
                      buf |-> <<>>]
               /\ files' = [files EXCEPT ![args[t].filepath] =
                               [exists |-> TRUE, data |-> <<>>]]
          ELSE /\ m_OutputStream' = [m_OutputStream EXCEPT !.fail = TRUE]
               /\ files' = files
    /\ pc' = [pc EXCEPT ![t] = "bs_isopen"]
    /\ UNCHANGED <<m_Mutex, m_CurrentSession, heap, log, locals, timer, calls>>

\* mutant: the file is opened for appending (std::ios::app), not truncated
BsOpen_Append(t) ==
    /\ pc[t] = "bs_open"
    /\ \E ok \in BOOLEAN :
          IF ok /\ m_OutputStream.path = NoPath
          THEN /\ m_OutputStream' =
                     [path |-> args[t].filepath, fail |-> FALSE, buf |-> <<>>]
               /\ files' = [files EXCEPT ![args[t].filepath].exists = TRUE]
          ELSE /\ m_OutputStream' = [m_OutputStream EXCEPT !.fail = TRUE]
               /\ files' = files
    /\ pc' = [pc EXCEPT ![t] = "bs_isopen"]
    /\ UNCHANGED <<m_Mutex, m_CurrentSession, heap, log, locals, timer, calls>>

\* m_OutputStream.open(filepath): fails on a stream that is open, and
\* whenever the file system refuses; a successful open truncates the file
\* and clears the stream's state
BsOpen(t) ==
    /\ pc[t] = "bs_open"
    /\ \E ok \in BOOLEAN :
          IF ok /\ m_OutputStream.path = NoPath
          THEN /\ m_OutputStream' =
                     [path |-> args[t].filepath, fail |-> FALSE, buf |-> <<>>]
               /\ files' = [files EXCEPT ![args[t].filepath] =
                               [exists |-> TRUE, data |-> <<>>]]
          ELSE /\ m_OutputStream' = [m_OutputStream EXCEPT !.fail = TRUE]
               /\ files' = files
    /\ pc' = [pc EXCEPT ![t] = "bs_isopen"]
    /\ UNCHANGED <<m_Mutex, m_CurrentSession, heap, log, locals, timer, calls>>

\* mutant: the session is created whether or not the file opened
BsIsOpen_NoTest(t) ==
    /\ pc[t] = "bs_isopen"
    /\ pc' = [pc EXCEPT ![t] = "bs_new"]
    /\ UNCHANGED <<m_Mutex, sink, locals, timer, calls>>

\* if (m_OutputStream.is_open())
BsIsOpen(t) ==
    /\ pc[t] = "bs_isopen"
    /\ pc' = [pc EXCEPT ![t] =
                 IF m_OutputStream.path # NoPath THEN "bs_new" ELSE "bs_loge"]
    /\ UNCHANGED <<m_Mutex, sink, locals, timer, calls>>

\* m_CurrentSession = new InstrumentationSession({name});
BsNew(t) ==
    /\ pc[t] = "bs_new"
    /\ LET a == CHOOSE x \in 1..(Cardinality(DOMAIN heap) + 1) : x \notin DOMAIN heap
       IN  /\ heap' = [x \in DOMAIN heap \cup {a} |->
                          IF x = a THEN [Name |-> args[t].name] ELSE heap[x]]
           /\ m_CurrentSession' = a
    /\ pc' = [pc EXCEPT ![t] = "hd_write"]
    /\ UNCHANGED <<m_Mutex, m_OutputStream, files, log, locals, timer, calls>>

\* WriteHeader: m_OutputStream << "{\"otherData\": {},\"traceEvents\":[{}";
HdWrite(t) ==
    /\ pc[t] = "hd_write"
    /\ m_OutputStream' = StreamPut(m_OutputStream, Header)
    /\ pc' = [pc EXCEPT ![t] = "hd_flush"]
    /\ UNCHANGED <<m_Mutex, m_CurrentSession, heap, files, log, locals, timer, calls>>

\* m_OutputStream.flush()
Flush ==
    /\ files' = Synced(m_OutputStream, files)
    /\ m_OutputStream' = [m_OutputStream EXCEPT !.buf = <<>>]

\* WriteHeader: m_OutputStream.flush();
HdFlush(t) ==
    /\ pc[t] = "hd_flush"
    /\ Flush
    /\ pc' = [pc EXCEPT ![t] = "bs_unlock"]
    /\ UNCHANGED <<m_Mutex, m_CurrentSession, heap, log, locals, timer, calls>>

\* LOGE("Instrumentor could not open results file '", filepath, "'.");
BsLogE(t) ==
    /\ pc[t] = "bs_loge"
    /\ log' = Append(log, [level |-> "E", name |-> args[t].name,
                           what |-> args[t].filepath])
    /\ pc' = [pc EXCEPT ![t] = "bs_unlock"]
    /\ UNCHANGED <<m_Mutex, m_CurrentSession, heap, m_OutputStream, files,
                   locals, timer, calls>>

BsReturn(t) ==
    /\ pc[t] = "bs_unlock"
    /\ Release(t)
    /\ pc' = [pc EXCEPT ![t] = "idle"]
    /\ UNCHANGED <<sink, timer, calls>>

\* --------------------------------------------------------------- EndSession

EndSession(t) ==
    /\ pc[t] = "idle"
    /\ args' = [args EXCEPT ![t] = [op |-> "EndSession"]]
    /\ calls' = calls + 1
    /\ pc' = [pc EXCEPT ![t] = "es_lock"]
    /\ UNCHANGED <<m_Mutex, sink, json, ret, obs, timer>>

\* mutant: EndSession without the lock_guard
EsLock_NoLock(t) ==
    /\ pc[t] = "es_lock"
    /\ pc' = [pc EXCEPT ![t] = "ies_check"]
    /\ ret' = [ret EXCEPT ![t] = "es_unlock"]
    /\ UNCHANGED <<m_Mutex, sink, args, json, obs, timer, calls>>

\* std::lock_guard lock(m_Mutex); InternalEndSession();
EsLock(t) ==
    /\ pc[t] = "es_lock"
    /\ Acquire(t)
    /\ pc' = [pc EXCEPT ![t] = "ies_check"]
    /\ ret' = [ret EXCEPT ![t] = "es_unlock"]
    /\ UNCHANGED <<sink, args, json, timer, calls>>

EsReturn(t) ==
    /\ pc[t] = "es_unlock"
    /\ Release(t)
    /\ pc' = [pc EXCEPT ![t] = "idle"]
    /\ UNCHANGED <<sink, timer, calls>>

\* ------------------------------------------------------- InternalEndSession

\* mutant: the teardown runs without the test of m_CurrentSession
IesCheck_NoTest(t) ==
    /\ pc[t] = "ies_check"
    /\ pc' = [pc EXCEPT ![t] = "ft_write"]
    /\ obs' = [obs EXCEPT ![t] = Seen(t)]
    /\ UNCHANGED <<m_Mutex, sink, args, json, ret, timer, calls>>

\* if (m_CurrentSession)
IesCheck(t) ==
    /\ pc[t] = "ies_check"
    /\ pc' = [pc EXCEPT ![t] =
                 IF m_CurrentSession # nullptr THEN "ft_write" ELSE ret[t]]
    /\ obs' = [obs EXCEPT ![t] = Seen(t)]
    /\ UNCHANGED <<m_Mutex, sink, args, json, ret, timer, calls>>

\* WriteFooter: m_OutputStream << "]}";
FtWrite(t) ==
    /\ pc[t] = "ft_write"
    /\ m_OutputStream' = StreamPut(m_OutputStream, Footer)
    /\ pc' = [pc EXCEPT ![t] = "ft_flush"]
    /\ UNCHANGED <<m_Mutex, m_CurrentSession, heap, files, log, locals, timer, calls>>

\* WriteFooter: m_OutputStream.flush();
FtFlush(t) ==
    /\ pc[t] = "ft_flush"
    /\ Flush
    /\ pc' = [pc EXCEPT ![t] = "ies_close"]
    /\ UNCHANGED <<m_Mutex, m_CurrentSession, heap, log, locals, timer, calls>>

\* m_OutputStream.close(): writes out what is buffered and closes the file;
\* on a stream that is not open it sets failbit
IesClose(t) ==
    /\ pc[t] = "ies_close"
    /\ files' = Synced(m_OutputStream, files)
    /\ m_OutputStream' =
          [path |-> NoPath,
           fail |-> m_OutputStream.fail \/ m_OutputStream.path = NoPath,
           buf  |-> <<>>]
    /\ pc' = [pc EXCEPT ![t] = "ies_delete"]
    /\ UNCHANGED <<m_Mutex, m_CurrentSession, heap, log, locals, timer, calls>>

\* mutant: the session object is not deleted
IesDelete_Leak(t) ==
    /\ pc[t] = "ies_delete"
    /\ pc' = [pc EXCEPT ![t] = "ies_null"]
    /\ UNCHANGED <<m_Mutex, sink, locals, timer, calls>>

\* delete m_CurrentSession;
IesDelete(t) ==
    /\ pc[t] = "ies_delete"
    /\ heap' = [x \in DOMAIN heap \ {m_CurrentSession} |-> heap[x]]
    /\ pc' = [pc EXCEPT ![t] = "ies_null"]
    /\ UNCHANGED <<m_Mutex, m_CurrentSession, m_OutputStream, files, log,
                   locals, timer, calls>>

\* mutant: the pointer is left dangling after the delete
IesNull_Skip(t) ==
    /\ pc[t] = "ies_null"
    /\ pc' = [pc EXCEPT ![t] = ret[t]]
    /\ UNCHANGED <<m_Mutex, m_CurrentSession, heap, m_OutputStream, files, log,
                   locals, timer, calls>>

\* m_CurrentSession = nullptr;
IesNull(t) ==
    /\ pc[t] = "ies_null"
    /\ m_CurrentSession' = nullptr
    /\ pc' = [pc EXCEPT ![t] = ret[t]]
    /\ UNCHANGED <<m_Mutex, heap, m_OutputStream, files, log, locals, timer, calls>>

\* ------------------------------------------------------------- WriteProfile

\* lines 73-87: the local copy of the name, std::replace and the stringstream
WpEnter(t, result, back) ==
    /\ args' = [args EXCEPT ![t] = [op |-> "WriteProfile", result |-> result]]
    /\ json' = [json EXCEPT ![t] = Json(result)]
    /\ ret' = [ret EXCEPT ![t] = back]
    /\ pc' = [pc EXCEPT ![t] = "wp_lock"]

\* a call of WriteProfile that comes from no timer
WriteProfile(t) ==
    /\ pc[t] = "idle"
    /\ \E n \in SpanNames, s \in Ticks, tid \in Threads :
          WpEnter(t, [Name |-> n, Start |-> s, ElapsedTime |-> 0, ThreadID |-> tid],
                  "idle")
    /\ calls' = calls + 1
    /\ UNCHANGED <<m_Mutex, sink, obs, timer>>

\* a call of WriteProfile from no timer, with any start and elapsed time
WriteProfileNumbers(t) ==
    /\ pc[t] = "idle"
    /\ \E s \in 0..MaxStartNs, e \in 0..MaxElapsedUs :
          WpEnter(t, [Name |-> <<"a">>, Start |-> s, ElapsedTime |-> e,
                      ThreadID |-> t], "idle")
    /\ calls' = calls + 1
    /\ UNCHANGED <<m_Mutex, sink, obs, timer>>

\* a call of WriteProfile from no timer, with any span name
WriteProfileNames(t) ==
    /\ pc[t] = "idle"
    /\ \E n \in Names :
          WpEnter(t, [Name |-> n, Start |-> 0, ElapsedTime |-> 0,
                      ThreadID |-> t], "idle")
    /\ calls' = calls + 1
    /\ UNCHANGED <<m_Mutex, sink, obs, timer>>

\* mutant: WriteProfile takes no lock
WpLock_NoLock(t) ==
    /\ pc[t] = "wp_lock"
    /\ obs' = [obs EXCEPT ![t] = [NoObs EXCEPT !.logAt = Len(log)]]
    /\ pc' = [pc EXCEPT ![t] = "wp_check"]
    /\ UNCHANGED <<m_Mutex, sink, args, json, ret, timer, calls>>

WpLock(t) ==
    /\ pc[t] = "wp_lock"
    /\ Acquire(t)
    /\ pc' = [pc EXCEPT ![t] = "wp_check"]
    /\ UNCHANGED <<sink, args, json, ret, timer, calls>>

\* mutant: the record is written without the test of m_CurrentSession
WpCheck_NoTest(t) ==
    /\ pc[t] = "wp_check"
    /\ pc' = [pc EXCEPT ![t] = "wp_write"]
    /\ obs' = [obs EXCEPT ![t] = Seen(t)]
    /\ UNCHANGED <<m_Mutex, sink, args, json, ret, timer, calls>>

\* mutant: the record goes out when a session was open at construction
WpCheck_AtBirth(t) ==
    /\ pc[t] = "wp_check"
    /\ pc' = [pc EXCEPT ![t] =
                 IF timer[t].born # NoPath THEN "wp_write" ELSE "wp_unlock"]
    /\ obs' = [obs EXCEPT ![t] = Seen(t)]
    /\ UNCHANGED <<m_Mutex, sink, args, json, ret, timer, calls>>

\* if (m_CurrentSession)
WpCheck(t) ==
    /\ pc[t] = "wp_check"
    /\ pc' = [pc EXCEPT ![t] =
                 IF m_CurrentSession # nullptr THEN "wp_write" ELSE "wp_unlock"]
    /\ obs' = [obs EXCEPT ![t] = Seen(t)]
    /\ UNCHANGED <<m_Mutex, sink, args, json, ret, timer, calls>>

\* m_OutputStream << json.str();
WpWrite(t) ==
    /\ pc[t] = "wp_write"
    /\ m_OutputStream' = StreamPut(m_OutputStream, json[t])
    /\ pc' = [pc EXCEPT ![t] = "wp_flush"]
    /\ UNCHANGED <<m_Mutex, m_CurrentSession, heap, files, log, locals, timer, calls>>

\* mutant: the record is left in the stream's buffer, without a flush
WpFlush_Skip(t) ==
    /\ pc[t] = "wp_flush"
    /\ pc' = [pc EXCEPT ![t] = "wp_unlock"]
    /\ UNCHANGED <<m_Mutex, sink, locals, timer, calls>>

\* m_OutputStream.flush();
WpFlush(t) ==
    /\ pc[t] = "wp_flush"
    /\ Flush
    /\ pc' = [pc EXCEPT ![t] = "wp_unlock"]
    /\ UNCHANGED <<m_Mutex, m_CurrentSession, heap, log, locals, timer, calls>>

WpReturn(t) ==
    /\ pc[t] = "wp_unlock"
    /\ Release(t)
    /\ pc' = [pc EXCEPT ![t] = ret[t]]
    /\ UNCHANGED <<sink, timer, calls>>

\* ----------------------------------------------------- InstrumentationTimer

\* what is left of a timer once its destructor has run: the object is gone,
\* the counts of its Stop calls and of the records it forwarded stay
Dead(tm) ==
    [NoTimer EXCEPT !.life = "dead", !.m_Stopped = tm.m_Stopped,
                    !.forwarded = tm.forwarded, !.stops = tm.stops]

\* history: the file of the session that is open, NoPath when there is none
SessionFile ==
    IF m_CurrentSession # nullptr THEN m_OutputStream.path ELSE NoPath

\* InstrumentationTimer(const char* name); born is history, not program state
Construct(t) ==
    /\ pc[t] = "idle"
    /\ timer[t].life \in {"none", "dead"}
    /\ \E n \in SpanNames, s \in Ticks :
          timer' = [timer EXCEPT ![t] =
                       [NoTimer EXCEPT !.life = "alive", !.m_Name = n,
                                       !.m_StartTimepoint = s,
                                       !.born = SessionFile]]
    /\ calls' = calls + 1
    /\ UNCHANGED <<m_Mutex, sink, pc, locals>>

\* Stop, lines 146-150, with the clock reading `now`
StopBody(t, now) ==
    LET tm == timer[t]
        elapsedTime == CastMicros(now) - CastMicros(tm.m_StartTimepoint)
    IN  WpEnter(t, [Name |-> tm.m_Name, Start |-> tm.m_StartTimepoint,
                    ElapsedTime |-> elapsedTime, ThreadID |-> t], "st_mark")

\* an explicit call of Stop()
Stop(t) ==
    /\ pc[t] = "idle"
    /\ timer[t].life = "alive"
    /\ \E now \in {x \in Ticks : x >= timer[t].m_StartTimepoint} : StopBody(t, now)
    /\ timer' = [timer EXCEPT ![t].stops = @ + 1, ![t].forwarded = @ + 1]
    /\ calls' = calls + 1
    /\ UNCHANGED <<m_Mutex, sink, obs>>

\* mutant: the destructor's test is inverted, if (m_Stopped) Stop();
Destroy_Inverted(t) ==
    /\ pc[t] = "idle"
    /\ timer[t].life = "alive"
    /\ IF timer[t].m_Stopped
       THEN /\ \E now \in {x \in Ticks : x >= timer[t].m_StartTimepoint} :
                  StopBody(t, now)
            /\ timer' = [timer EXCEPT ![t].life = "dying", ![t].forwarded = @ + 1]
       ELSE /\ timer' = [timer EXCEPT ![t] = Dead(@)]
            /\ UNCHANGED <<pc, args, json, ret>>
    /\ UNCHANGED <<m_Mutex, sink, obs, calls>>

\* ~InstrumentationTimer(): if (!m_Stopped) Stop();
Destroy(t) ==
    /\ pc[t] = "idle"
    /\ timer[t].life = "alive"
    /\ IF ~timer[t].m_Stopped
       THEN /\ \E now \in {x \in Ticks : x >= timer[t].m_StartTimepoint} :
                  StopBody(t, now)
            /\ timer' = [timer EXCEPT ![t].life = "dying", ![t].forwarded = @ + 1]
       ELSE /\ timer' = [timer EXCEPT ![t] = Dead(@)]
            /\ UNCHANGED <<pc, args, json, ret>>
    /\ UNCHANGED <<m_Mutex, sink, obs, calls>>

\* mutant: Stop does not set m_Stopped
StMark_NoFlag(t) ==
    /\ pc[t] = "st_mark"
    /\ timer' = [timer EXCEPT ![t] = IF @.life = "dying" THEN Dead(@) ELSE @]
    /\ pc' = [pc EXCEPT ![t] = "idle"]
    /\ UNCHANGED <<m_Mutex, sink, locals, calls>>

\* Stop, line 152: m_Stopped = true; and the return to the caller
StMark(t) ==
    /\ pc[t] = "st_mark"
    /\ timer' = [timer EXCEPT ![t] =
                    IF @.life = "dying" THEN Dead([@ EXCEPT !.m_Stopped = TRUE])
                    ELSE [@ EXCEPT !.m_Stopped = TRUE]]
    /\ pc' = [pc EXCEPT ![t] = "idle"]
    /\ UNCHANGED <<m_Mutex, sink, locals, calls>>

\* ------------------------------------------------------------ specification

\* the calls the program makes, MaxCalls of them at most
Call(t) ==
    /\ calls < MaxCalls
    /\ \/ BeginSession(t)
       \/ EndSession(t)
       \/ WriteProfile(t)
       \/ Construct(t)
       \/ Stop(t)

Next ==
    \E t \in Threads :
        \/ Call(t)
        \/ Destroy(t) \/ StMark(t)
        \/ BsLock(t) \/ BsCheck(t) \/ BsWarn(t) \/ BsOpen(t) \/ BsIsOpen(t)
        \/ BsNew(t) \/ HdWrite(t) \/ HdFlush(t) \/ BsLogE(t) \/ BsReturn(t)
        \/ EsLock(t) \/ EsReturn(t)
        \/ IesCheck(t) \/ FtWrite(t) \/ FtFlush(t) \/ IesClose(t)
        \/ IesDelete(t) \/ IesNull(t)
        \/ WpLock(t) \/ WpCheck(t) \/ WpWrite(t) \/ WpFlush(t) \/ WpReturn(t)

Spec == Init /\ [][Next]_vars

\* ---------------------------------------------------------- fair scheduling

\* the steps of thread t inside a call it has made
Running(t) ==
    \/ BsLock(t) \/ BsCheck(t) \/ BsWarn(t) \/ BsOpen(t) \/ BsIsOpen(t)
    \/ BsNew(t) \/ HdWrite(t) \/ HdFlush(t) \/ BsLogE(t) \/ BsReturn(t)
    \/ EsLock(t) \/ EsReturn(t)
    \/ IesCheck(t) \/ FtWrite(t) \/ FtFlush(t) \/ IesClose(t)
    \/ IesDelete(t) \/ IesNull(t)
    \/ WpLock(t) \/ WpCheck(t) \/ WpWrite(t) \/ WpFlush(t) \/ WpReturn(t)
    \/ StMark(t)

\* every thread that can take a step inside a call eventually takes one
FairSpec == Spec /\ \A t \in Threads : WF_vars(Running(t))

\* ------------------------------------------------------------ process exit

\* mutant: a destructor of Instrumentor that ends the open session
ProcessExit_Finalize ==
    /\ m_Mutex = NoThread
    /\ \E t \in Threads : pc[t] # "exited"
    /\ files' = Synced(IF m_CurrentSession # nullptr
                       THEN StreamPut(m_OutputStream, Footer)
                       ELSE m_OutputStream, files)
    /\ m_OutputStream' = [path |-> NoPath, fail |-> m_OutputStream.fail, buf |-> <<>>]
    /\ m_CurrentSession' = nullptr
    /\ heap' = [x \in DOMAIN heap \ {m_CurrentSession} |-> heap[x]]
    /\ pc' = [t \in Threads |-> "exited"]
    /\ UNCHANGED <<m_Mutex, log, locals, timer, calls>>

\* The process ends while no call is inside the sink.  Instrumentor declares
\* no destructor: the static instance's members are destroyed, the ofstream
\* writes out its buffer and closes its file, the session object is left as
\* it is.
ProcessExit ==
    /\ m_Mutex = NoThread
    /\ \E t \in Threads : pc[t] # "exited"
    /\ files' = Synced(m_OutputStream, files)
    /\ m_OutputStream' = [path |-> NoPath, fail |-> m_OutputStream.fail, buf |-> <<>>]
    /\ pc' = [t \in Threads |-> "exited"]
    /\ UNCHANGED <<m_Mutex, m_CurrentSession, heap, log, locals, timer, calls>>

NextExit == Next \/ ProcessExit

SpecExit == Init /\ [][NextExit]_vars

\* ---------------------------------------- one session, one timer per thread

\* a BeginSession has returned and left a session open
SessionRunning ==
    /\ m_CurrentSession # nullptr
    /\ \A u \in Threads : args[u].op # "BeginSession"

\* One BeginSession; while its session is open every thread constructs one
\* timer and lets it go out of scope without a Stop(); when all the timers
\* are destroyed, one EndSession.
NextTimers ==
    \E t \in Threads :
        \/ calls = 0 /\ BeginSession(t)
        \/ SessionRunning /\ timer[t].life = "none" /\ Construct(t)
        \/ Destroy(t)
        \/ /\ \A u \in Threads : timer[u].life = "dead"
           /\ calls = NThreads + 1
           /\ EndSession(t)
        \/ StMark(t)
        \/ BsLock(t) \/ BsCheck(t) \/ BsOpen(t) \/ BsIsOpen(t)
        \/ BsNew(t) \/ HdWrite(t) \/ HdFlush(t) \/ BsLogE(t) \/ BsReturn(t)
        \/ EsLock(t) \/ EsReturn(t)
        \/ IesCheck(t) \/ FtWrite(t) \/ FtFlush(t) \/ IesClose(t)
        \/ IesDelete(t) \/ IesNull(t)
        \/ WpLock(t) \/ WpCheck(t) \/ WpWrite(t) \/ WpFlush(t) \/ WpReturn(t)

SpecTimers == Init /\ [][NextTimers]_vars

\* --------------------------------- one session, one WriteProfile of any record

\* One BeginSession, then one WriteProfile whose ProfileResult is drawn from
\* all the start times, elapsed times and names within the bounds.
NextFormat ==
    \E t \in Threads :
        \/ calls = 0 /\ BeginSession(t)
        \/ calls = 1 /\ SessionRunning /\ WriteProfileNumbers(t)
        \/ calls = 1 /\ SessionRunning /\ WriteProfileNames(t)
        \/ BsLock(t) \/ BsCheck(t) \/ BsOpen(t) \/ BsIsOpen(t)
        \/ BsNew(t) \/ HdWrite(t) \/ HdFlush(t) \/ BsLogE(t) \/ BsReturn(t)
        \/ WpLock(t) \/ WpCheck(t) \/ WpWrite(t) \/ WpFlush(t) \/ WpReturn(t)

SpecFormat == Init /\ [][NextFormat]_vars

\* ============================================================== properties

IsHeader(c) == c.k = Header.k
IsFooter(c) == c.k = Footer.k
IsSpan(c) == c.k = ",{"

\* one prologue, then span records only, then one epilogue
WellFormed(data) ==
    /\ Len(data) >= 2
    /\ IsHeader(data[1])
    /\ IsFooter(data[Len(data)])
    /\ \A i \in 2..(Len(data) - 1) : IsSpan(data[i])

Spans(data) == {i \in 1..Len(data) : IsSpan(data[i])}

\* the log entries the call of thread t has emitted since it took the mutex
Emitted(t, level) ==
    {i \in (obs[t].logAt + 1)..Len(log) : log[i].level = level}

\* the thread is between taking m_Mutex and releasing it
LockedPcs ==
    {"bs_check", "bs_warn", "bs_open", "bs_isopen", "bs_new", "hd_write",
     "hd_flush", "bs_loge", "bs_unlock", "ies_check", "ft_write", "ft_flush",
     "ies_close", "ies_delete", "ies_null", "es_unlock", "wp_check",
     "wp_write", "wp_flush", "wp_unlock"}

\* C1: when an EndSession that found a session open returns, that session's
\* file holds exactly one prologue, then zero or more span records, then one
\* epilogue, and nothing else.
C1_FileWellFormedAfterEndSession ==
    \A t \in Threads :
        (pc[t] = "es_unlock" /\ obs[t].found) =>
            /\ obs[t].path \in Paths
            /\ files[obs[t].path].exists
            /\ WellFormed(files[obs[t].path].data)

\* an EndSession is about to return from a session that recorded a span
C1_Witness ==
    \E t \in Threads :
        /\ pc[t] = "es_unlock"
        /\ obs[t].found
        /\ Spans(files[obs[t].path].data) # {}

\* C2: at most one InstrumentationSession object exists, it is the one
\* m_CurrentSession points to, and at most one file has its prologue written,
\* its epilogue not yet written and is still open.
C2_AtMostOneSession ==
    /\ Cardinality(DOMAIN heap) <= 1
    /\ m_CurrentSession # nullptr => DOMAIN heap \subseteq {m_CurrentSession}
    /\ (m_CurrentSession = nullptr /\ m_Mutex = NoThread) => DOMAIN heap = {}
    /\ Cardinality({p \in Paths :
           /\ m_OutputStream.path = p
           /\ files[p].data # <<>>
           /\ IsHeader(files[p].data[1])
           /\ ~IsFooter(files[p].data[Len(files[p].data)])}) <= 1

\* a second session has replaced a first one
C2_Witness ==
    /\ m_CurrentSession # nullptr
    /\ m_Mutex = NoThread
    /\ \E i \in 1..Len(log) : log[i].level = "W"
    /\ Cardinality(DOMAIN heap) = 1

\* C3: a BeginSession that finds session A open has A's epilogue written and
\* A's file closed before it opens its own file (and so before it writes its
\* prologue), emits exactly one warning, which names A, and leaves its own
\* session current if its file opened.
C3_BeginWhileOpen ==
    \A t \in Threads :
        /\ (pc[t] = "bs_open" /\ obs[t].found) =>
              /\ m_OutputStream.path = NoPath
              /\ m_OutputStream.buf = <<>>
              /\ m_CurrentSession = nullptr
              /\ WellFormed(files[obs[t].path].data)
        /\ (pc[t] \in {"bs_isopen", "bs_new", "hd_write", "hd_flush", "bs_unlock"}
               /\ obs[t].found /\ obs[t].path # args[t].filepath) =>
              WellFormed(files[obs[t].path].data)
        /\ (pc[t] = "bs_unlock" /\ obs[t].found) =>
              /\ Cardinality(Emitted(t, "W")) = 1
              /\ \A i \in Emitted(t, "W") :
                    log[i].what = obs[t].name /\ log[i].name = args[t].name
              /\ m_OutputStream.path # NoPath =>
                    /\ m_CurrentSession # nullptr
                    /\ heap[m_CurrentSession].Name = args[t].name
                    /\ m_OutputStream.path = args[t].filepath
                    /\ files[args[t].filepath].data = <<Header>>

\* BeginSession("B", q) has replaced session "A" on another file p
C3_Witness ==
    \E t \in Threads :
        /\ pc[t] = "bs_unlock"
        /\ obs[t].found
        /\ obs[t].name # args[t].name
        /\ obs[t].path # args[t].filepath
        /\ m_OutputStream.path = args[t].filepath

\* C4: over the lifetime of a timer, whatever the number of Stop() calls made
\* on it before its destruction, exactly one span record is forwarded to
\* WriteProfile.
C4_OneRecordPerTimer ==
    \A t \in Threads : timer[t].life = "dead" => timer[t].forwarded = 1

\* C5: the destructor calls Stop() exactly when the timer has not been
\* stopped, so a timer on which Stop() was called at most once explicitly has
\* forwarded exactly one span record once it is destroyed.
C5_DestructorStopsOnce ==
    \A t \in Threads :
        /\ timer[t].life = "dying" =>
              /\ ~timer[t].m_Stopped
              /\ timer[t].stops = 0
              /\ timer[t].forwarded = 1
        /\ (timer[t].life = "dead" /\ timer[t].stops <= 1) =>
              /\ timer[t].forwarded = 1
              /\ timer[t].m_Stopped

\* one timer destroyed after one explicit Stop(), another destroyed unstopped
C5_Witness ==
    \E t, u \in Threads :
        /\ timer[t].life = "dead" /\ timer[t].stops = 1 /\ timer[t].forwarded = 1
        /\ timer[u].life = "dead" /\ timer[u].stops = 0 /\ timer[u].forwarded = 1

\* the WriteProfile of thread t has found, or is about to find, no session
Dropping(t) ==
    \/ pc[t] = "wp_check" /\ m_CurrentSession = nullptr
    \/ pc[t] = "wp_unlock" /\ ~obs[t].found

\* C6: from the moment a WriteProfile takes the mutex with no session open
\* until it returns, nothing of the sink changes: no file and no file's
\* content, not the stream, not the session pointer, not the log; and the
\* call goes straight to its return.
C6_WriteProfileNoSession ==
    [][\A t \in Threads :
          /\ (pc[t] = "wp_lock" /\ pc'[t] = "wp_check") => sink' = sink
          /\ Dropping(t) =>
                /\ sink' = sink
                /\ pc[t] = "wp_check" => pc'[t] \in {"wp_check", "wp_unlock"}
                /\ pc[t] = "wp_unlock" => pc'[t] \in {"wp_unlock", ret[t]}]_vars

\* a WriteProfile is dropped after a session has been closed
C6_Witness ==
    \E t \in Threads :
        /\ pc[t] = "wp_unlock"
        /\ ~obs[t].found
        /\ \E p \in Paths : files[p].exists

\* the last thing logged is a failure to open, and no session is open
AfterFailedOpen ==
    /\ m_CurrentSession = nullptr
    /\ log # <<>>
    /\ log[Len(log)].level = "E"

\* C7: a BeginSession whose file does not open logs one error naming the
\* path, writes no prologue and leaves no session, stream or session object,
\* the session that was open before it being closed with its epilogue; a
\* WriteProfile that then finds no session changes nothing and keeps nothing,
\* and a span record only ever enters the stream from a WriteProfile that
\* found a session open.
C7_FailedOpen ==
    /\ [](\A t \in Threads :
            (pc[t] = "bs_unlock" /\ m_OutputStream.path = NoPath) =>
                /\ m_CurrentSession = nullptr
                /\ DOMAIN heap = {}
                /\ m_OutputStream.buf = <<>>
                /\ Cardinality(Emitted(t, "E")) = 1
                /\ \A i \in Emitted(t, "E") : log[i].what = args[t].filepath
                /\ \A p \in Paths : files[p].exists => WellFormed(files[p].data))
    /\ [][/\ \A t \in Threads :
               (AfterFailedOpen /\ Dropping(t) /\ pc'[t] # pc[t]) =>
                   /\ sink' = sink
                   /\ pc[t] = "wp_unlock" => json'[t] = NoJson
          /\ m_OutputStream'.buf # m_OutputStream.buf =>
               \/ m_OutputStream'.buf = <<>>
               \/ \E t \in Threads :
                     /\ pc[t] \in {"hd_write", "ft_write"}
                     /\ m_OutputStream'.buf \in
                           {Append(m_OutputStream.buf, Header),
                            Append(m_OutputStream.buf, Footer)}
               \/ \E t \in Threads :
                     /\ pc[t] = "wp_write"
                     /\ obs[t].found
                     /\ m_CurrentSession # nullptr
                     /\ m_OutputStream'.buf = Append(m_OutputStream.buf, json[t])]_vars

\* a WriteProfile is dropped after a BeginSession that closed the open
\* session and then failed to open its own file
C7_Witness ==
    \E t \in Threads :
        /\ pc[t] = "wp_unlock"
        /\ ~obs[t].found
        /\ AfterFailedOpen
        /\ \E p \in Paths : WellFormed(files[p].data)

\* C8: a thread is in the part of BeginSession, EndSession or WriteProfile
\* that reads or writes m_CurrentSession or m_OutputStream only while it owns
\* m_Mutex, so at most one thread is in such a part.
C8_MutualExclusion ==
    /\ \A t \in Threads : pc[t] \in LockedPcs => m_Mutex = t
    /\ Cardinality({t \in Threads : pc[t] \in LockedPcs}) <= 1

\* one thread writes a record while another waits for the mutex
C8_Witness ==
    \E t, u \in Threads :
        /\ pc[t] = "wp_write"
        /\ pc[u] \in {"bs_lock", "es_lock", "wp_lock"}

\* the EndSession of thread t has found, or is about to find, no session
NoopEnd(t) ==
    \/ pc[t] = "ies_check" /\ ret[t] = "es_unlock" /\ m_CurrentSession = nullptr
    \/ pc[t] = "es_unlock" /\ ~obs[t].found

\* C10: from the moment an EndSession takes the mutex with no session open
\* until it returns, nothing of the sink changes: no epilogue is written, no
\* file changes, the session pointer stays null, nothing is logged; and the
\* call goes straight to its return.
C10_EndSessionNoSession ==
    [][\A t \in Threads :
          NoopEnd(t) =>
              /\ sink' = sink
              /\ m_CurrentSession' = nullptr
              /\ pc[t] = "ies_check" => pc'[t] \in {"ies_check", "es_unlock"}
              /\ pc[t] = "es_unlock" => pc'[t] \in {"es_unlock", "idle"}]_vars

\* a second EndSession in a row: the first closed the session, nothing was
\* begun since
C10_Witness ==
    \E t \in Threads :
        /\ pc[t] = "es_unlock"
        /\ ~obs[t].found
        /\ calls = 3
        /\ log = <<>>
        /\ \E p \in Paths : WellFormed(files[p].data)
        /\ \A u \in Threads : timer[u].life = "none"

\* C9: one session open, NThreads timers constructed on NThreads threads and
\* destroyed without a Stop(), then EndSession: the file holds one prologue,
\* exactly NThreads span records, one with the id of each thread, and one
\* epilogue, whatever the interleaving (checked under SpecTimers).
C9_OneRecordPerThread ==
    \A t \in Threads :
        pc[t] = "es_unlock" =>
            /\ obs[t].found
            /\ LET data == files[obs[t].path].data
               IN  /\ WellFormed(data)
                   /\ Cardinality(Spans(data)) = NThreads
                   /\ \A u \in Threads :
                         Cardinality({i \in Spans(data) : data[i].tid = u}) = 1

\* the EndSession returns and the last thread's record is the first in the file
C9_Witness ==
    \E t \in Threads :
        /\ pc[t] = "es_unlock"
        /\ Cardinality(Spans(files[obs[t].path].data)) = NThreads
        /\ files[obs[t].path].data[2].tid = NThreads

\* C11: every write is flushed before its operation releases the mutex:
\* whenever m_Mutex is free the stream's buffer is empty, so the file holds
\* everything written so far; the prologue is in the file when a successful
\* BeginSession returns, a span record when its WriteProfile returns, the
\* epilogue when the EndSession returns.
C11_FlushedBeforeUnlock ==
    /\ m_Mutex = NoThread => m_OutputStream.buf = <<>>
    /\ \A t \in Threads :
          /\ pc[t] \in {"bs_unlock", "es_unlock", "wp_unlock"} =>
                m_OutputStream.buf = <<>>
          /\ (pc[t] = "bs_unlock" /\ m_OutputStream.path # NoPath) =>
                files[m_OutputStream.path].data = <<Header>>
          /\ (pc[t] = "wp_unlock" /\ obs[t].found) =>
                LET data == files[obs[t].path].data
                IN  /\ Len(data) >= 2
                    /\ data[Len(data)] = json[t]
          /\ (pc[t] = "es_unlock" /\ obs[t].found) =>
                LET data == files[obs[t].path].data
                IN  /\ Len(data) >= 2
                    /\ IsFooter(data[Len(data)])

\* the mutex is free, a session is open and its file holds a span record
C11_Witness ==
    /\ m_Mutex = NoThread
    /\ m_CurrentSession # nullptr
    /\ m_OutputStream.path # NoPath
    /\ Spans(files[m_OutputStream.path].data) # {}

\* the record the WriteProfile of thread t has just put in the file
Written(t) == files[obs[t].path].data[Len(files[obs[t].path].data)]

\* C12 as claimed: in every span record written both dur and ts have exactly
\* 3 digits after the decimal point.
C12_BothThreeDecimals ==
    \A t \in Threads :
        (pc[t] = "wp_unlock" /\ obs[t].found) =>
            /\ Len(Written(t).dur.frac) = 3
            /\ Len(Written(t).ts.frac) = 3

\* C12 as amended: in every span record written, ts is the start time in
\* microseconds in fixed notation with exactly 3 digits after the decimal
\* point, and dur is the elapsed time as a whole number of microseconds, with
\* no decimal point and no digits after it.
C12_TsThreeDecimalsDurInteger ==
    \A t \in Threads :
        (pc[t] = "wp_unlock" /\ obs[t].found) =>
            LET ts == Written(t).ts
                dur == Written(t).dur
                result == args[t].result
            IN  /\ Len(ts.frac) = 3
                /\ \A i \in 1..3 : ts.frac[i] \in 0..9
                /\ 1000 * ts.int + 100 * ts.frac[1] + 10 * ts.frac[2] + ts.frac[3]
                      = result.Start
                /\ dur.frac = <<>>
                /\ dur.int = result.ElapsedTime

\* a record with start 1.007 us and elapsed time 2 us has been written
C12_Witness ==
    \E t \in Threads :
        /\ pc[t] = "wp_unlock"
        /\ obs[t].found
        /\ args[t].result.Start = 1007
        /\ args[t].result.ElapsedTime = 2
        /\ Written(t).ts = [int |-> 1, frac |-> <<0, 0, 7>>]
        /\ Written(t).dur = [int |-> 2, frac |-> <<>>]

\* the positions of WriteProfile, from its entry to its return
WpPcs == {"wp_lock", "wp_check", "wp_write", "wp_flush", "wp_unlock"}

\* C13: the name in the record written has the length of the name passed in,
\* a single quote wherever that name has a double quote and the same
\* character everywhere else, so it holds no double quote; and the
\* ProfileResult passed in is the same from the entry of the call to its
\* return.
C13_NameEscaped ==
    /\ [](\A t \in Threads :
            (pc[t] = "wp_unlock" /\ obs[t].found) =>
                LET in == args[t].result.Name
                    out == Written(t).name
                IN  /\ Len(out) = Len(in)
                    /\ \A i \in 1..Len(in) :
                          /\ in[i] = DQ => out[i] = SQ
                          /\ in[i] # DQ => out[i] = in[i]
                    /\ \A i \in 1..Len(out) : out[i] # DQ)
    /\ [][\A t \in Threads :
            (pc[t] \in WpPcs /\ pc'[t] \in WpPcs) => args'[t] = args[t]]_vars

\* a name of two double quotes has been written as two single quotes
C13_Witness ==
    \E t \in Threads :
        /\ pc[t] = "wp_unlock"
        /\ obs[t].found
        /\ args[t].result.Name = <<DQ, DQ>>
        /\ Written(t).name = <<SQ, SQ>>

\* the thread is at an insertion into m_OutputStream, or at the flush after it
InsertPcs == {"hd_write", "hd_flush", "ft_write", "ft_flush", "wp_write", "wp_flush"}

\* C14: a WriteProfile inserts its record whole, at the end of the stream,
\* while it owns the mutex it took, and no other thread is inserting a
\* prologue, an epilogue or a record at that time; the content of a file only
\* grows at its end, by what its stream holds, until an open truncates it.  So
\* the records of a file are in the order in which their calls took the mutex.
C14_RecordsInLockOrder ==
    [][/\ \A t \in Threads :
             (pc[t] = "wp_write" /\ pc'[t] # pc[t]) =>
                 /\ m_Mutex = t
                 /\ m_OutputStream'.buf = Append(m_OutputStream.buf, json[t])
                 /\ \A u \in Threads \ {t} : pc[u] \notin InsertPcs
       /\ \A t \in Threads :
             (pc[t] = "wp_flush" /\ pc'[t] # pc[t]) =>
                 /\ m_Mutex = t
                 /\ m_OutputStream.buf = <<json[t]>>
                 /\ files'[m_OutputStream.path].data =
                       Append(files[m_OutputStream.path].data, json[t])
       /\ \A p \in Paths :
             files'[p].data # files[p].data =>
                 \/ files'[p].data = <<>>
                 \/ /\ m_OutputStream.path = p
                    /\ files'[p].data = files[p].data \o m_OutputStream.buf]_vars

\* two threads have each put a record in the file, the second thread first
C14_Witness ==
    \E t, u \in Threads :
        /\ t < u
        /\ pc[t] = "wp_unlock"
        /\ obs[t].found
        /\ args[t].result.ThreadID = t
        /\ Len(files[obs[t].path].data) = 3
        /\ files[obs[t].path].data[2].tid = u
        /\ files[obs[t].path].data[3].tid = t

\* when the call of thread t took the mutex, the last thing logged was a
\* failure to open
FailedBefore(t) ==
    /\ obs[t].logAt > 0
    /\ log[obs[t].logAt].level = "E"

\* C15: a BeginSession that comes after a failed one, finds no session open
\* and opens its file leaves its session current with the prologue in the
\* file, and logs neither a warning nor an error; a WriteProfile that then
\* finds the session puts its record in the file.
C15_FailureNotSticky ==
    \A t \in Threads :
        /\ (pc[t] = "bs_unlock" /\ FailedBefore(t) /\ ~obs[t].found
                /\ m_OutputStream.path # NoPath) =>
              /\ m_CurrentSession # nullptr
              /\ heap[m_CurrentSession].Name = args[t].name
              /\ m_OutputStream.path = args[t].filepath
              /\ ~m_OutputStream.fail
              /\ files[args[t].filepath] = [exists |-> TRUE, data |-> <<Header>>]
              /\ Emitted(t, "W") = {}
              /\ Emitted(t, "E") = {}
        /\ (pc[t] = "wp_unlock" /\ FailedBefore(t) /\ obs[t].found) =>
              /\ IsHeader(files[obs[t].path].data[1])
              /\ Written(t) = json[t]

\* failed BeginSession, successful BeginSession, WriteProfile recorded, and no
\* warning in the log
C15_Witness ==
    \E t \in Threads :
        /\ pc[t] = "wp_unlock"
        /\ obs[t].found
        /\ Len(log) = 1
        /\ FailedBefore(t)
        /\ files[obs[t].path].data = <<Header, json[t]>>

\* the step is the end of the process
Exiting == \E t \in Threads : pc[t] # "exited" /\ pc'[t] = "exited"

\* C16: an epilogue enters the stream only at WriteFooter inside the
\* InternalEndSession of an EndSession, or of a BeginSession that found a
\* session open, and reaches a file only at the flush of that WriteFooter; the
\* end of the process writes nothing: when it comes with a session open, that
\* session's file is left as the prologue and the span records written so far,
\* with no epilogue (checked under SpecExit).
C16_NoFinalizeAtExit ==
    [][/\ m_OutputStream'.buf = Append(m_OutputStream.buf, Footer) =>
             \E t \in Threads :
                 /\ pc[t] = "ft_write"
                 /\ pc'[t] = "ft_flush"
                 /\ m_CurrentSession # nullptr
                 /\ \/ args[t].op = "EndSession" /\ ret[t] = "es_unlock"
                    \/ /\ args[t].op = "BeginSession"
                       /\ ret[t] = "bs_open"
                       /\ obs[t].found
       /\ \A p \in Paths :
             (/\ files'[p].data # files[p].data
              /\ files'[p].data # <<>>
              /\ IsFooter(files'[p].data[Len(files'[p].data)])) =>
                 \E t \in Threads : pc[t] = "ft_flush" /\ pc'[t] = "ies_close"
       /\ Exiting =>
             /\ files' = files
             /\ m_CurrentSession' = m_CurrentSession
             /\ log' = log
             /\ m_CurrentSession # nullptr =>
                   LET data == files'[m_OutputStream.path].data
                   IN  /\ Len(data) >= 1
                       /\ IsHeader(data[1])
                       /\ \A i \in 2..Len(data) : IsSpan(data[i])]_vars

\* the process has ended with a session open whose file holds a span record
C16_Witness ==
    /\ \A t \in Threads : pc[t] = "exited"
    /\ m_CurrentSession # nullptr
    /\ \E p \in Paths :
          /\ Len(files[p].data) >= 2
          /\ IsHeader(files[p].data[1])
          /\ IsSpan(files[p].data[Len(files[p].data)])

\* C17: under fair scheduling every call returns, with the mutex no longer
\* owned by its thread; a BeginSession that finds a session open included,
\* which goes through InternalEndSession with the mutex it already owns
\* (checked under FairSpec).
C17_EveryCallReturns ==
    \A t \in Threads :
        /\ (pc[t] # "idle") ~> (pc[t] = "idle" /\ m_Mutex # t)
        /\ (pc[t] = "bs_warn") ~> (pc[t] = "bs_open" /\ m_Mutex = t)

\* a BeginSession is tearing down the session it found, while another thread
\* waits for the mutex
C17_Witness ==
    \E t, u \in Threads :
        /\ pc[t] = "ies_close"
        /\ ret[t] = "bs_open"
        /\ m_Mutex = t
        /\ pc[u] \in {"bs_lock", "es_lock", "wp_lock"}

\* the stream is open on a file that holds the prologue and no epilogue
StreamOnOpenTrace ==
    /\ m_OutputStream.path # NoPath
    /\ LET data == files[m_OutputStream.path].data
       IN /\ Len(data) >= 1
          /\ IsHeader(data[1])
          /\ \A i \in 1..Len(data) : ~IsFooter(data[i])

\* C18: whenever no thread holds the mutex, m_CurrentSession is non-null
\* exactly when the stream is open on a file whose prologue has been written
\* and whose epilogue has not.
C18_SessionIffStreamOpen ==
    m_Mutex = NoThread => ((m_CurrentSession # nullptr) <=> StreamOnOpenTrace)

\* both sides of the equivalence have been seen with the mutex free: a session
\* was ended (its file is closed with an epilogue) and a new one is running
C18_Witness ==
    /\ m_Mutex = NoThread
    /\ m_CurrentSession # nullptr
    /\ StreamOnOpenTrace
    /\ \E p \in Paths : p # m_OutputStream.path /\ WellFormed(files[p].data)

\* data is a prefix of: prologue, span records, epilogue
TracePrefix(data) ==
    \A i \in 1..Len(data) :
        \/ i = 1 /\ IsHeader(data[i])
        \/ i > 1 /\ IsSpan(data[i])
        \/ i > 1 /\ i = Len(data) /\ IsFooter(data[i])

\* what file p holds once the stream's pending output has reached it
Content(p) ==
    IF m_OutputStream.path = p THEN files[p].data \o m_OutputStream.buf
    ELSE files[p].data

\* C19: in every reachable state, mid-operation states included, the content
\* of every output file, on disk and with the stream's pending output, is a
\* prefix of prologue, span records, epilogue.
C19_FilesArePrefixes ==
    \A p \in Paths : TracePrefix(files[p].data) /\ TracePrefix(Content(p))

\* a WriteProfile has put its record into the stream of a running session
\* while another thread is waiting in EndSession or BeginSession
C19_Witness ==
    \E t, u \in Threads :
        /\ pc[t] = "wp_flush"
        /\ pc[u] \in {"es_lock", "bs_lock"}
        /\ m_OutputStream.path # NoPath
        /\ Len(m_OutputStream.buf) = 1
        /\ IsSpan(m_OutputStream.buf[1])
        /\ IsHeader(files[m_OutputStream.path].data[1])

\* thread t is inside the critical section of the WriteProfile of its timer
StopLocked(t) ==
    /\ ret[t] = "st_mark"
    /\ m_Mutex = t
    /\ pc[t] \in {"wp_check", "wp_write", "wp_flush", "wp_unlock"}

\* the steps of a timer's WriteProfile, from the lock to the unlock
C20_Step(t) ==
    StopLocked(t) =>
        /\ m_CurrentSession' = m_CurrentSession
        /\ m_OutputStream'.path = m_OutputStream.path
        /\ pc'[t] = pc[t] => files' = files
        /\ json[t] = Json([Name |-> timer[t].m_Name,
                           Start |-> timer[t].m_StartTimepoint,
                           ElapsedTime |-> args[t].result.ElapsedTime,
                           ThreadID |-> t])
        /\ pc[t] = "wp_check" /\ pc'[t] = "wp_write" =>
              m_CurrentSession # nullptr /\ files' = files
        /\ pc[t] = "wp_check" /\ pc'[t] = "wp_unlock" =>
              m_CurrentSession = nullptr /\ files' = files
        /\ pc[t] = "wp_write" /\ pc'[t] = "wp_flush" =>
              /\ m_OutputStream'.buf = Append(m_OutputStream.buf, json[t])
              /\ files' = files
        /\ pc[t] = "wp_flush" /\ pc'[t] = "wp_unlock" =>
              /\ SessionFile = obs[t].path
              /\ files' = [files EXCEPT ![SessionFile].data = Append(@, json[t])]
        /\ pc[t] = "wp_unlock" /\ pc'[t] # "wp_unlock" =>
              files' = files /\ (obs[t].found <=> m_CurrentSession # nullptr)

\* C20: whether and where the span of a timer is recorded is decided by the
\* session that is open while its Stop() holds the lock, whatever session was
\* open at its construction: with a session open the record is appended to
\* that session's file and to no other, with none open no file changes.
C20_StopTimeSessionDecides == [][\A t \in Threads : C20_Step(t)]_vars

\* a timer constructed during a session on one file has its record in the
\* file of a later session, as the last record, with the lock still held
C20_Witness ==
    \E t \in Threads :
        /\ StopLocked(t)
        /\ pc[t] = "wp_unlock"
        /\ obs[t].found
        /\ timer[t].born \notin {NoPath, obs[t].path}
        /\ Written(t) = json[t]
        /\ \A i \in 1..Len(files[timer[t].born].data) :
              ~IsSpan(files[timer[t].born].data[i])

====
